---- MODULE Spec2Model ----
(***************************************************************************)
(* A model of the miden-diagnostics core: the concurrent source registry  *)
(* (CodeMap, codemap.rs), the diagnostics handler (handler.rs) with its    *)
(* output sink (emitter.rs), and the diagnostic builder (diagnostic.rs).   *)
(*                                                                         *)
(* Every access to one of the registry's concurrent maps or to an atomic   *)
(* counter is one step of the calling thread.  Under Spec the calls of the *)
(* threads overlap freely; under SeqSpec a call starts only when no other  *)
(* is running.  HandlerSpec and HandlerSeqSpec do the same for emit, the   *)
(* entry points that build a diagnostic and failed, on a handler built     *)
(* from any configuration; HandlerOpsSpec and HandlerOpsSeqSpec add the    *)
(* queries and the status lines.  Under BuilderSpec a builder attaches     *)
(* labels by file name and line while registrations run one at a time.     *)
(* The registry's lookups are operators on its state.                      *)
(***************************************************************************)
EXTENDS Integers, Sequences, FiniteSets, TLC

\* ------------------------------------------------------------------ bounds
NumThreads == 2
MaxCalls == 2
NumHThreads == 2
MaxHCalls == 2
MaxLabels == 1
MaxByte == 2

Threads == 1..NumThreads
HThreads == 1..NumHThreads

\* ------------------------------------------------------------ value types
\* SourceId::UNKNOWN, the sentinel that names no file
SourceIdUNKNOWN == 0

\* Option<T>
None == [some |-> FALSE]
Some(x) == [some |-> TRUE, val |-> x]

\* FileName::Real(path) and FileName::Virtual(text)
FileNameReal(path) == [kind |-> "Real", text |-> path]
FileNameVirtual(text) == [kind |-> "Virtual", text |-> text]

Paths == {"p"}
VirtualNames == {"v"}
Contents == {"a", "b"}
FileNames == {FileNameReal(p) : p \in Paths} \cup {FileNameVirtual(v) : v \in VirtualNames}

\* a span of some already registered parent file, as handed to add_child
SourceSpanOf(id, start, end) == [source_id |-> id, start |-> start, end |-> end]
ParentSpans == {SourceSpanOf(1, 0, 1)}

\* SourceFile::new(id, name, source, parent)
SourceFileNew(id, name, source, parent) ==
    [id |-> id, name |-> name, source |-> source, parent |-> parent]

\* std::fs::read_to_string(path): the text on disk at the time of the read, or an error
IoErr == [ok |-> FALSE]
IoOk(s) == [ok |-> TRUE, val |-> s]
ReadToString(path) == {IoErr} \cup {IoOk(s) : s \in Contents}

\* what a call returned: nothing yet, an id, or an I/O error
NoRet == [kind |-> "none", id |-> SourceIdUNKNOWN]
RetId(id) == [kind |-> "id", id |-> id]
RetErr == [kind |-> "err", id |-> SourceIdUNKNOWN]

\* flurry::HashMap
EmptyMap == << >>
MapInsert(m, k, v) == [x \in DOMAIN m \cup {k} |-> IF x = k THEN v ELSE m[x]]
MapGet(m, k) == IF k \in DOMAIN m THEN Some(m[k]) ELSE None

VARIABLES
    \* CodeMap
    files,          \* id -> SourceFile
    names,          \* FileName -> id
    seen,           \* path -> id
    next_file_id,   \* AtomicU32
    \* registering threads
    pc,             \* thread -> position in its call
    call,           \* thread -> the call's arguments and locals
    ncalls,         \* calls started so far
    \* history
    reg,            \* the registrations that minted an id, in minting order
    returned,       \* path -> the ids add / add_file returned for it
    \* DiagnosticsHandler
    config,         \* the DiagnosticsConfig the handler was built from
    handler,        \* the policy flags fixed by DiagnosticsHandler::new
    err_count,      \* AtomicUsize
    sink,           \* the buffers handed to Emitter::print, in order
    \* threads calling the handler
    hpc,            \* thread -> position in its call
    hcall,          \* thread -> the call's arguments and locals
    nhcalls,        \* handler calls started so far
    nfailed,        \* calls of failed started so far
    \* scheduling
    sched,          \* "interleaved": calls overlap freely; "sequential": one at a time
    \* InFlightDiagnostic
    bld,            \* the builder in use, and its position in the call it is in
    \* SourceSpan
    spans,          \* two spans in hand, and the last operation applied to them
    \* CaptureEmitter
    cap             \* the captured bytes, their mutex, and each thread's print call

cmvars == <<files, names, seen, next_file_id, pc, call, ncalls, reg, returned>>
hvars == <<config, handler, err_count, sink, hpc, hcall, nhcalls, nfailed>>
vars == <<cmvars, hvars, sched, bld, spans, cap>>

\* ---------------------------------------------------------------- CodeMap
NoCall ==
    [op |-> "none", name |-> FileNameVirtual(""), source |-> "", parent |-> None,
     file_id |-> SourceIdUNKNOWN, ret |-> NoRet, seq |-> 0]

\* a faulty CodeMap::new: the id counter starts at SourceId::UNKNOWN
CodeMapNewZero ==
    /\ files = EmptyMap
    /\ names = EmptyMap
    /\ seen = EmptyMap
    /\ next_file_id = 0

\* CodeMap::new
CodeMapNew ==
    /\ files = EmptyMap
    /\ names = EmptyMap
    /\ seen = EmptyMap
    /\ next_file_id = 1

RegistryInit ==
    /\ CodeMapNew
    /\ pc = [t \in Threads |-> "idle"]
    /\ call = [t \in Threads |-> NoCall]
    /\ ncalls = 0
    /\ reg = << >>
    /\ returned = [p \in Paths |-> {}]

\* a thread may start a call when it is not inside one; under the sequential
\* schedule, when no thread is inside one
CanCall(t) ==
    /\ pc[t] \in {"idle", "done"}
    /\ ncalls < MaxCalls
    /\ sched = "sequential" => \A u \in Threads : pc[u] \in {"idle", "done"}

\* the call of thread t ends with result r
Finish(t, c, r) ==
    /\ pc' = [pc EXCEPT ![t] = "done"]
    /\ call' = [call EXCEPT ![t] = [c EXCEPT !.ret = r]]
    /\ returned' = IF c.op \in {"add", "add_file"} /\ c.name.kind = "Real" /\ r.kind = "id"
                   THEN [returned EXCEPT ![c.name.text] = @ \cup {r.id}]
                   ELSE returned

\* CodeMap::add up to the path lookup (a real name) or to insert_file (a virtual one)
Add(t, name, source) ==
    LET c == [NoCall EXCEPT !.op = "add", !.name = name, !.source = source,
                            !.seq = ncalls + 1]
        hit == MapGet(seen, name.text)
    IN /\ CanCall(t)
       /\ ncalls' = ncalls + 1
       /\ IF name.kind = "Real" /\ hit.some
          THEN Finish(t, c, RetId(hit.val))
          ELSE /\ pc' = [pc EXCEPT ![t] = "next_file_id"]
               /\ call' = [call EXCEPT ![t] = c]
               /\ UNCHANGED returned
       /\ UNCHANGED <<files, names, seen, next_file_id, reg, hvars, sched, bld, spans, cap>>

\* a faulty add_file that reserves its id before it reads the file, and keeps the
\* reservation when the read fails
AddFileMintFirst(t, path) ==
    LET c == [NoCall EXCEPT !.op = "add_file", !.name = FileNameReal(path),
                            !.seq = ncalls + 1]
        hit == MapGet(seen, path)
    IN /\ CanCall(t)
       /\ ncalls' = ncalls + 1
       /\ IF hit.some
          THEN Finish(t, c, RetId(hit.val)) /\ UNCHANGED next_file_id
          ELSE \E r \in ReadToString(path) :
                  IF r.ok
                  THEN /\ pc' = [pc EXCEPT ![t] = "next_file_id"]
                       /\ call' = [call EXCEPT ![t] = [c EXCEPT !.source = r.val]]
                       /\ UNCHANGED <<returned, next_file_id>>
                  ELSE Finish(t, c, RetErr) /\ next_file_id' = next_file_id + 1
       /\ UNCHANGED <<files, names, seen, reg, hvars, sched, bld, spans, cap>>

\* CodeMap::add_file: the path lookup and, on a miss, the read of the file (the read
\* touches no state another thread sees, so it shares the lookup's step)
AddFile(t, path) ==
    LET c == [NoCall EXCEPT !.op = "add_file", !.name = FileNameReal(path),
                            !.seq = ncalls + 1]
        hit == MapGet(seen, path)
    IN /\ CanCall(t)
       /\ ncalls' = ncalls + 1
       /\ IF hit.some
          THEN Finish(t, c, RetId(hit.val))
          ELSE \E r \in ReadToString(path) :
                  IF r.ok
                  THEN /\ pc' = [pc EXCEPT ![t] = "next_file_id"]
                       /\ call' = [call EXCEPT ![t] = [c EXCEPT !.source = r.val]]
                       /\ UNCHANGED returned
                  ELSE Finish(t, c, RetErr)
       /\ UNCHANGED <<files, names, seen, next_file_id, reg, hvars, sched, bld, spans, cap>>

\* CodeMap::add_child up to insert_file
AddChild(t, name, source, parent) ==
    LET c == [NoCall EXCEPT !.op = "add_child", !.name = name, !.source = source,
                            !.parent = Some(parent), !.seq = ncalls + 1]
    IN /\ CanCall(t)
       /\ ncalls' = ncalls + 1
       /\ pc' = [pc EXCEPT ![t] = "next_file_id"]
       /\ call' = [call EXCEPT ![t] = c]
       /\ UNCHANGED <<files, names, seen, next_file_id, reg, returned, hvars, sched, bld, spans, cap>>

\* AtomicU32::fetch_add(1): the value before, and the value after.  The counter wraps
\* only after 2^32 registrations; MaxCalls keeps every run far below that.
\* (FetchAddLost: a faulty variant that reads the counter and leaves it as it was)
FetchAddLost(v) == [old |-> v, new |-> v]
FetchAdd(v) == [old |-> v, new |-> v + 1]

\* insert_file, first step: CodeMap::next_file_id
NextFileId(t) ==
    LET r == FetchAdd(next_file_id)
    IN /\ pc[t] = "next_file_id"
       /\ next_file_id' = r.new
       /\ call' = [call EXCEPT ![t].file_id = r.old]
       /\ reg' = Append(reg, [id |-> r.old, op |-> call[t].op, name |-> call[t].name,
                              source |-> call[t].source, parent |-> call[t].parent])
       /\ pc' = [pc EXCEPT ![t] = "names_insert"]
       /\ UNCHANGED <<files, names, seen, ncalls, returned, hvars, sched, bld, spans, cap>>

\* insert_file, second step: names.insert(filename, file_id)
\* (NamesPutIfAbsent: a faulty variant that keeps an entry the name already has)
NamesPutIfAbsent(m, name, id) == IF name \in DOMAIN m THEN m ELSE MapInsert(m, name, id)

NamesPut(m, name, id) == MapInsert(m, name, id)

InsertNames(t) ==
    /\ pc[t] = "names_insert"
    /\ names' = NamesPut(names, call[t].name, call[t].file_id)
    /\ pc' = [pc EXCEPT ![t] = "files_insert"]
    /\ UNCHANGED <<files, seen, next_file_id, call, ncalls, reg, returned, hvars, sched, bld, spans, cap>>

\* insert_file, third step: files.insert(file_id, SourceFile::new(..)); the calls that
\* do not touch the path index return file_id
\* (FilesPutPartial: a faulty variant that inserts the file before its content is set)
FilesPutPartial(m, c) ==
    MapInsert(m, c.file_id, SourceFileNew(c.file_id, c.name, "", c.parent))

\* (FilesPutNoParent: a faulty variant that drops the parent span)
FilesPutNoParent(m, c) ==
    MapInsert(m, c.file_id, SourceFileNew(c.file_id, c.name, c.source, None))

FilesPut(m, c) ==
    MapInsert(m, c.file_id, SourceFileNew(c.file_id, c.name, c.source, c.parent))

\* whether the call goes on from insert_file to claim the path slot: add under a real
\* name and add_file do, add_child returns what insert_file returns
\* (ClaimsPathAlways: a faulty variant in which add_child claims the slot as well)
ClaimsPathAlways(c) == c.name.kind = "Real"

ClaimsPath(c) == c.op \in {"add", "add_file"} /\ c.name.kind = "Real"

InsertFiles(t) ==
    /\ pc[t] = "files_insert"
    /\ files' = FilesPut(files, call[t])
    /\ IF ClaimsPath(call[t])
       THEN /\ pc' = [pc EXCEPT ![t] = "seen_try_insert"]
            /\ UNCHANGED <<call, returned>>
       ELSE Finish(t, call[t], RetId(call[t].file_id))
    /\ UNCHANGED <<names, seen, next_file_id, ncalls, reg, hvars, sched, bld, spans, cap>>

\* seen.try_insert(path, source_id): the map after, and the id the call returns
\* (its own on Ok, the current entry's on Err)
\* (TryInsertForget: a faulty variant that never records the path)
TryInsertForget(m, path, id) == [map |-> m, ret |-> id]

\* (TryInsertOwn: a faulty variant in which the loser returns the id it minted)
TryInsertOwn(m, path, id) ==
    [map |-> IF path \in DOMAIN m THEN m ELSE MapInsert(m, path, id), ret |-> id]

TryInsert(m, path, id) ==
    IF path \in DOMAIN m
    THEN [map |-> m, ret |-> m[path]]
    ELSE [map |-> MapInsert(m, path, id), ret |-> id]

SeenTryInsert(t) ==
    LET r == TryInsert(seen, call[t].name.text, call[t].file_id)
    IN /\ pc[t] = "seen_try_insert"
       /\ seen' = r.map
       /\ Finish(t, call[t], RetId(r.ret))
       /\ UNCHANGED <<files, names, next_file_id, ncalls, reg, hvars, sched, bld, spans, cap>>

\* one step of thread t
Step(t) ==
    \/ \E n \in FileNames, s \in Contents : Add(t, n, s)
    \/ \E p \in Paths : AddFile(t, p)
    \/ \E n \in FileNames, s \in Contents, sp \in ParentSpans : AddChild(t, n, s, sp)
    \/ NextFileId(t)
    \/ InsertNames(t)
    \/ InsertFiles(t)
    \/ SeenTryInsert(t)

\* ------------------------------------------------------ DiagnosticsHandler
\* Verbosity, ordered: a greater verbosity shows less
Verbosities == {"Debug", "Info", "Warning", "Error", "Silent"}
VerbosityRank(v) ==
    CASE v = "Debug" -> 0 [] v = "Info" -> 1 [] v = "Warning" -> 2
      [] v = "Error" -> 3 [] v = "Silent" -> 4
VerbosityGt(a, b) == VerbosityRank(a) > VerbosityRank(b)

\* Severity of a diagnostic
Severities == {"Bug", "Error", "Warning", "Note", "Help"}

Messages == {"m"}

\* term::Config, the display settings handed to the renderer
Displays == {"Rich"}

\* DiagnosticsConfig
Configs ==
    [verbosity : Verbosities, warnings_as_errors : BOOLEAN, no_warn : BOOLEAN,
     display : Displays]
DefaultConfig ==
    [verbosity |-> "Info", warnings_as_errors |-> FALSE, no_warn |-> FALSE,
     display |-> "Rich"]

\* DiagnosticsHandler::new: the policy flags
\* (DiagnosticsHandlerNewNoWarnCopied: a faulty variant that copies no_warn from the
\* configuration without looking at the verbosity)
DiagnosticsHandlerNewNoWarnCopied(c) ==
    [verbosity |-> c.verbosity,
     warnings_as_errors |-> c.warnings_as_errors,
     no_warn |-> c.no_warn,
     silent |-> c.verbosity = "Silent",
     display |-> c.display]

DiagnosticsHandlerNew(c) ==
    [verbosity |-> c.verbosity,
     warnings_as_errors |-> c.warnings_as_errors,
     no_warn |-> c.no_warn \/ VerbosityGt(c.verbosity, "Warning"),
     silent |-> c.verbosity = "Silent",
     display |-> c.display]

NoHCall ==
    [op |-> "none", severity |-> "Help", out |-> "Help", message |-> "",
     pre_count |-> 0, pre_sink |-> 0, seq |-> 0, res |-> "none"]

HandlerInit(c) ==
    /\ config = c
    /\ handler = DiagnosticsHandlerNew(c)
    /\ err_count = 0
    /\ sink = << >>
    /\ hpc = [t \in HThreads |-> "idle"]
    /\ hcall = [t \in HThreads |-> NoHCall]
    /\ nhcalls = 0
    /\ nfailed = 0

\* term::emit renders a diagnostic into a buffer; write_prefixed fills one with a
\* coloured prefix and the message
RenderDiagnostic(severity, message) ==
    [kind |-> "diagnostic", severity |-> severity, message |-> message]
RenderPrefixed(header, message) ==
    [kind |-> "prefixed", severity |-> header, message |-> message]
\* the line info and debug write: the tag, ": " and the message
RenderTagged(tag, message) ==
    [kind |-> "tagged", severity |-> tag, message |-> message]

CanHCall(t) ==
    /\ hpc[t] \in {"idle", "done"}
    /\ nhcalls < MaxHCalls
    /\ sched = "sequential" => \A u \in HThreads : hpc[u] \in {"idle", "done"}

\* a call of op with a diagnostic of this severity, as it starts
HCallOf(op, severity, message) ==
    [NoHCall EXCEPT !.op = op, !.severity = severity, !.out = severity,
                    !.message = message, !.pre_count = err_count, !.pre_sink = Len(sink),
                    !.seq = nhcalls + 1]

\* emit's arbitration of a diagnostic of this severity: whether it is discarded, and
\* the severity it goes on with.  Four faulty variants come first: one without the
\* no_warn arm, one without the promotion arm, one without the silent return, one
\* without the Note arm.
EmitPolicyNoSuppress(h, severity) ==
    IF h.silent THEN [discard |-> TRUE, severity |-> severity]
    ELSE IF severity = "Note" /\ VerbosityGt(h.verbosity, "Info")
         THEN [discard |-> TRUE, severity |-> severity]
    ELSE IF severity = "Warning" /\ h.warnings_as_errors
         THEN [discard |-> FALSE, severity |-> "Error"]
    ELSE [discard |-> FALSE, severity |-> severity]

EmitPolicyNoPromote(h, severity) ==
    IF h.silent THEN [discard |-> TRUE, severity |-> severity]
    ELSE IF severity = "Note" /\ VerbosityGt(h.verbosity, "Info")
         THEN [discard |-> TRUE, severity |-> severity]
    ELSE IF severity = "Warning" /\ h.no_warn
         THEN [discard |-> TRUE, severity |-> severity]
    ELSE [discard |-> FALSE, severity |-> severity]

EmitPolicyNoSilent(h, severity) ==
    IF severity = "Note" /\ VerbosityGt(h.verbosity, "Info")
         THEN [discard |-> TRUE, severity |-> severity]
    ELSE IF severity = "Warning" /\ h.no_warn
         THEN [discard |-> TRUE, severity |-> severity]
    ELSE IF severity = "Warning" /\ h.warnings_as_errors
         THEN [discard |-> FALSE, severity |-> "Error"]
    ELSE [discard |-> FALSE, severity |-> severity]

EmitPolicyNoteShown(h, severity) ==
    IF h.silent THEN [discard |-> TRUE, severity |-> severity]
    ELSE IF severity = "Warning" /\ h.no_warn
         THEN [discard |-> TRUE, severity |-> severity]
    ELSE IF severity = "Warning" /\ h.warnings_as_errors
         THEN [discard |-> FALSE, severity |-> "Error"]
    ELSE [discard |-> FALSE, severity |-> severity]

EmitPolicy(h, severity) ==
    IF h.silent THEN [discard |-> TRUE, severity |-> severity]
    ELSE IF severity = "Note" /\ VerbosityGt(h.verbosity, "Info")
         THEN [discard |-> TRUE, severity |-> severity]
    ELSE IF severity = "Warning" /\ h.no_warn
         THEN [discard |-> TRUE, severity |-> severity]
    ELSE IF severity = "Warning" /\ h.warnings_as_errors
         THEN [discard |-> FALSE, severity |-> "Error"]
    ELSE [discard |-> FALSE, severity |-> severity]

\* DiagnosticsHandler::emit up to the count: thread t hands call c's diagnostic to emit
EmitEnter(t, c) ==
    LET r == EmitPolicy(handler, c.severity)
    IN /\ hcall' = [hcall EXCEPT ![t] = [c EXCEPT !.out = r.severity]]
       /\ hpc' = [hpc EXCEPT ![t] = IF r.discard THEN "done"
                                    ELSE IF r.severity = "Error" THEN "count"
                                    ELSE "print"]

\* DiagnosticsHandler::emit called with a diagnostic of any severity
Emit(t, severity, message) ==
    /\ CanHCall(t)
    /\ nhcalls' = nhcalls + 1
    /\ EmitEnter(t, HCallOf("emit", severity, message))
    /\ UNCHANGED <<config, handler, err_count, sink, nfailed, cmvars, sched, bld, spans, cap>>

\* DiagnosticsHandler::error
Error(t, message) ==
    /\ CanHCall(t)
    /\ nhcalls' = nhcalls + 1
    /\ EmitEnter(t, HCallOf("error", "Error", message))
    /\ UNCHANGED <<config, handler, err_count, sink, nfailed, cmvars, sched, bld, spans, cap>>

\* DiagnosticsHandler::warn: an error diagnostic under warnings_as_errors
Warn(t, message) ==
    /\ CanHCall(t)
    /\ nhcalls' = nhcalls + 1
    /\ IF handler.warnings_as_errors
       THEN EmitEnter(t, HCallOf("warn", "Error", message))
       ELSE EmitEnter(t, HCallOf("warn", "Warning", message))
    /\ UNCHANGED <<config, handler, err_count, sink, nfailed, cmvars, sched, bld, spans, cap>>

\* DiagnosticsHandler::note
Note(t, message) ==
    /\ CanHCall(t)
    /\ nhcalls' = nhcalls + 1
    /\ IF VerbosityGt(handler.verbosity, "Info")
       THEN /\ hpc' = [hpc EXCEPT ![t] = "done"]
            /\ hcall' = [hcall EXCEPT ![t] = HCallOf("note", "Note", message)]
       ELSE EmitEnter(t, HCallOf("note", "Note", message))
    /\ UNCHANGED <<config, handler, err_count, sink, nfailed, cmvars, sched, bld, spans, cap>>

\* DiagnosticsHandler::failed up to the count
\* DiagnosticsHandler::fatal: error(err), then the FatalError it returns
\* (FatalUnlogged: a faulty variant that returns the FatalError without calling error)
FatalUnlogged(t, message) ==
    /\ CanHCall(t)
    /\ nhcalls' = nhcalls + 1
    /\ hcall' = [hcall EXCEPT ![t] =
                    [HCallOf("fatal", "Error", message) EXCEPT !.res = "FatalError"]]
    /\ hpc' = [hpc EXCEPT ![t] = "done"]
    /\ UNCHANGED <<config, handler, err_count, sink, nfailed, cmvars, sched, bld, spans, cap>>

Fatal(t, message) ==
    /\ CanHCall(t)
    /\ nhcalls' = nhcalls + 1
    /\ EmitEnter(t, [HCallOf("fatal", "Error", message) EXCEPT !.res = "FatalError"])
    /\ UNCHANGED <<config, handler, err_count, sink, nfailed, cmvars, sched, bld, spans, cap>>

Failed(t, message) ==
    /\ CanHCall(t)
    /\ nhcalls' = nhcalls + 1
    /\ nfailed' = nfailed + 1
    /\ hcall' = [hcall EXCEPT ![t] = HCallOf("failed", "Error", message)]
    /\ hpc' = [hpc EXCEPT ![t] = "count"]
    /\ UNCHANGED <<config, handler, err_count, sink, cmvars, sched, bld, spans, cap>>

\* the buffer the call of thread t renders
HBuffer(c) ==
    CASE c.op = "failed" -> RenderPrefixed("Error", c.message)
      [] c.op = "notice" -> RenderPrefixed("Warning", c.message)
      [] c.op = "success" -> RenderPrefixed("Note", c.message)
      [] c.op = "info" -> RenderTagged("info", c.message)
      [] c.op = "debug" -> RenderTagged("debug", c.message)
      [] OTHER -> RenderDiagnostic(c.out, c.message)

\* the test of has_errors on the loaded counter
\* (NonZeroOff: a faulty variant that overlooks the first error)
NonZeroOff(count) == count > 1

NonZero(count) == count > 0

\* DiagnosticsHandler::has_errors: one load of the counter
HasErrors(t) ==
    /\ CanHCall(t)
    /\ nhcalls' = nhcalls + 1
    /\ hcall' = [hcall EXCEPT ![t] =
                    [HCallOf("has_errors", "Help", "") EXCEPT
                        !.res = IF NonZero(err_count) THEN "true" ELSE "false"]]
    /\ hpc' = [hpc EXCEPT ![t] = "done"]
    /\ UNCHANGED <<config, handler, err_count, sink, nfailed, cmvars, sched, bld, spans, cap>>

\* DiagnosticsHandler::abort_if_errors: FatalError.raise() unwinds out of the caller
\* when has_errors is true; the handler itself stays usable
AbortIfErrors(t) ==
    /\ CanHCall(t)
    /\ nhcalls' = nhcalls + 1
    /\ hcall' = [hcall EXCEPT ![t] =
                    [HCallOf("abort_if_errors", "Help", "") EXCEPT
                        !.res = IF NonZero(err_count) THEN "raised" ELSE "returned"]]
    /\ hpc' = [hpc EXCEPT ![t] = "done"]
    /\ UNCHANGED <<config, handler, err_count, sink, nfailed, cmvars, sched, bld, spans, cap>>

\* the early returns of info and of debug
\* (InfoFilteredByNoWarn: a faulty variant in which no_warn silences info as well)
InfoFilteredByNoWarn(h) == VerbosityGt(h.verbosity, "Info") \/ h.no_warn

InfoFiltered(h) == VerbosityGt(h.verbosity, "Info")

DebugFiltered(h) == VerbosityGt(h.verbosity, "Debug")

\* a call that writes one line unless it is filtered.  The filter reads only fields
\* fixed at construction, so the call's one access to shared state is emitter.print,
\* and the whole call is one step.
StatusLine(t, op, message, filtered) ==
    LET c == HCallOf(op, "Help", message)
    IN /\ CanHCall(t)
       /\ nhcalls' = nhcalls + 1
       /\ hcall' = [hcall EXCEPT ![t] = c]
       /\ hpc' = [hpc EXCEPT ![t] = "done"]
       /\ sink' = IF filtered THEN sink ELSE Append(sink, HBuffer(c))
       /\ UNCHANGED <<config, handler, err_count, nfailed, cmvars, sched, bld, spans, cap>>

\* DiagnosticsHandler::info
Info(t, message) == StatusLine(t, "info", message, InfoFiltered(handler))

\* DiagnosticsHandler::debug
Debug(t, message) == StatusLine(t, "debug", message, DebugFiltered(handler))

\* DiagnosticsHandler::notice
Notice(t, message) ==
    StatusLine(t, "notice", message, VerbosityGt(handler.verbosity, "Info"))

\* DiagnosticsHandler::success
Success(t, message) == StatusLine(t, "success", message, handler.silent)

\* err_count.fetch_add(1, Relaxed): the counter after thread t's increment
\* (ErrCountIncLost: a faulty load-then-store, whose update is lost when another
\* thread is at its own increment)
ErrCountIncLost(t) ==
    IF \E u \in HThreads \ {t} : hpc[u] = "count" THEN err_count ELSE err_count + 1

\* (ErrCountWrap: a faulty counter one bit wide, which falls back to zero)
ErrCountWrap(t) == (err_count + 1) % 2

ErrCountInc(t) == err_count + 1

\* the increment of the error counter, in emit and in failed
HCount(t) ==
    /\ hpc[t] = "count"
    /\ err_count' = ErrCountInc(t)
    /\ hpc' = [hpc EXCEPT ![t] = "print"]
    /\ UNCHANGED <<config, handler, sink, hcall, nhcalls, nfailed, cmvars, sched, bld, spans, cap>>

\* emitter.buffer(), the rendering, and emitter.print(buffer)
HPrint(t) ==
    /\ hpc[t] = "print"
    /\ sink' = Append(sink, HBuffer(hcall[t]))
    /\ hpc' = [hpc EXCEPT ![t] = "done"]
    /\ UNCHANGED <<config, handler, err_count, hcall, nhcalls, nfailed, cmvars, sched, bld, spans, cap>>

\* one step of thread t on the handler
HStep(t) ==
    \/ \E s \in Severities, m \in Messages : Emit(t, s, m)
    \/ \E m \in Messages : Error(t, m)
    \/ \E m \in Messages : Warn(t, m)
    \/ \E m \in Messages : Note(t, m)
    \/ \E m \in Messages : Failed(t, m)
    \/ HCount(t)
    \/ HPrint(t)

\* one step of thread t in has_errors, abort_if_errors or a status line
HStatusStep(t) ==
    \/ HasErrors(t)
    \/ AbortIfErrors(t)
    \/ \E m \in Messages : Info(t, m)
    \/ \E m \in Messages : Debug(t, m)
    \/ \E m \in Messages : Notice(t, m)
    \/ \E m \in Messages : Success(t, m)

\* ---------------------------------------------------------------- lookups
\* CodeMap::get
Get(file_id) ==
    IF file_id = SourceIdUNKNOWN THEN None ELSE MapGet(files, file_id)

\* CodeMap::get_file_id
GetFileId(filename) == MapGet(names, filename)

\* CodeMap::get_by_name
GetByName(filename) ==
    LET id == GetFileId(filename)
    IN IF id.some THEN Get(id.val) ELSE None

\* Result<T, Error>
ErrFileMissing == [ok |-> FALSE, err |-> "FileMissing"]
ErrOther(e) == [ok |-> FALSE, err |-> e]
Ok(v) == [ok |-> TRUE, val |-> v]

\* SourceSpan::UNKNOWN
SourceSpanUNKNOWN == SourceSpanOf(SourceIdUNKNOWN, 0, 0)

\* SourceFile: the text of every file here is one byte on one line
ByteLen(source) == IF source = "" THEN 0 ELSE 1
LineCount(source) == 1

\* SourceFile::source_span, line_span, source_slice, location, line_column_to_span
FileSourceSpan(f) == SourceSpanOf(f.id, 0, ByteLen(f.source))
FileLineSpan(f, line_index) ==
    IF line_index >= 0 /\ line_index < LineCount(f.source)
    THEN Ok([start |-> 0, end |-> ByteLen(f.source)])
    ELSE ErrOther("LineTooLarge")
FileSourceSlice(f, span) ==
    IF span.start <= span.end /\ span.end <= ByteLen(f.source)
    THEN Ok([source |-> f.source, start |-> span.start, end |-> span.end])
    ELSE ErrOther("IndexTooLarge")
FileLocation(f, byte_index) ==
    IF byte_index <= ByteLen(f.source)
    THEN Ok([line |-> 0, column |-> byte_index])
    ELSE ErrOther("IndexTooLarge")
FileLineColumnToSpan(f, line, column) ==
    IF line < LineCount(f.source) /\ column <= ByteLen(f.source)
    THEN Ok([start |-> column, end |-> column])
    ELSE ErrOther("LineTooLarge")

\* CodeMap::get as a Result
GetResult(file_id) ==
    IF Get(file_id).some THEN Ok(Get(file_id).val) ELSE ErrFileMissing

\* CodeMap::get_with_span
GetWithSpan(span) == GetResult(span.source_id)

\* CodeMap::parent
\* (ParentOrUnknown: a faulty variant that answers a failed get with SourceSpan::UNKNOWN)
ParentOrUnknown(file_id) ==
    LET f == GetResult(file_id)
    IN IF f.ok THEN f.val.parent ELSE Some(SourceSpanUNKNOWN)

Parent(file_id) ==
    LET f == GetResult(file_id) IN IF f.ok THEN f.val.parent ELSE None

\* CodeMap::name
Name(file_id) ==
    LET f == GetResult(file_id) IN IF f.ok THEN Ok(f.val.name) ELSE f

\* CodeMap::source_span
SourceSpan(file_id) ==
    LET f == GetResult(file_id) IN IF f.ok THEN Ok(FileSourceSpan(f.val)) ELSE f

\* CodeMap::source_slice
SourceSlice(span) ==
    LET f == GetResult(span.source_id) IN IF f.ok THEN FileSourceSlice(f.val, span) ELSE f

\* CodeMap::location
Location(span) ==
    LET f == GetResult(span.source_id)
    IN IF f.ok THEN FileLocation(f.val, span.start) ELSE f

\* CodeMap::line_column_to_span
LineColumnToSpan(file_id, line, column) ==
    LET f == GetResult(file_id)
        span == IF f.ok THEN FileLineColumnToSpan(f.val, line, column) ELSE f
    IN IF span.ok THEN Ok(SourceSpanOf(file_id, span.val.start, span.val.end)) ELSE span

\* ------------------------------------------------------ InFlightDiagnostic
\* the inputs of the builder: the severity, the styles, the 1-based lines (0 is no line of any file,
\* 2 is past the end of every file here) and the label message
BuilderSeverities == {"Error"}
LabelStyles == {"Primary", "Secondary"}
Lines == 0..2
LabelMessages == {None}

\* Label::new(style, id, span), with the message if there is one
LabelNew(style, id, span, message) ==
    [style |-> style, file_id |-> id, span |-> span, message |-> message]

NoBuilder ==
    [pc |-> "none", op |-> "none", severity |-> "Help", file_id |-> None,
     labels |-> << >>, pre_labels |-> << >>, style |-> "Primary", name |-> None,
     line |-> 0, message |-> None, id |-> None, resolved |-> FALSE, why |-> "none"]

BuilderInit == bld = NoBuilder

\* the builder can take a call: it exists, is not inside one, and has room for a label
CanBuild == bld.pc \in {"ready", "done"} /\ Len(bld.labels) < MaxLabels

\* DiagnosticsHandler::diagnostic, InFlightDiagnostic::new: a fresh builder
Diagnostic(severity) ==
    /\ bld.pc \in {"none", "done", "panicked"}
    /\ bld' = [NoBuilder EXCEPT !.pc = "ready", !.op = "diagnostic",
                                !.severity = severity]
    /\ UNCHANGED <<cmvars, hvars, sched, spans, cap>>

\* InFlightDiagnostic::set_source_file
SetSourceFile(filename) ==
    /\ CanBuild
    /\ bld' = [bld EXCEPT !.pc = "done", !.op = "set_source_file",
                          !.name = Some(filename), !.file_id = GetFileId(filename),
                          !.pre_labels = bld.labels]
    /\ UNCHANGED <<cmvars, hvars, sched, spans, cap>>

\* with_label_and_file_id up to codemap.get: builder b goes on with the id it was given
WithLabelAndFileIdEnter(b, file_id) ==
    bld' = [b EXCEPT !.id = file_id, !.pc = IF file_id.some THEN "get" ELSE "done"]

\* InFlightDiagnostic::with_primary_label_line_and_col
WithPrimaryLabelLineAndCol(line, message) ==
    /\ CanBuild
    /\ WithLabelAndFileIdEnter(
          [bld EXCEPT !.op = "with_primary_label_line_and_col", !.style = "Primary",
                      !.name = None, !.line = line, !.message = message,
                      !.pre_labels = bld.labels, !.resolved = FALSE, !.why = "none"],
          bld.file_id)
    /\ UNCHANGED <<cmvars, hvars, sched, spans, cap>>

\* InFlightDiagnostic::with_label: the name lookup, when a name is given
WithLabel(style, filename, line, message) ==
    LET b == [bld EXCEPT !.op = "with_label", !.style = style, !.name = filename,
                         !.line = line, !.message = message,
                         !.pre_labels = bld.labels, !.resolved = FALSE, !.why = "none"]
    IN /\ CanBuild
       /\ IF filename.some
          THEN WithLabelAndFileIdEnter(b, GetFileId(filename.val))
          ELSE bld' = [b EXCEPT !.id = None, !.pc = "done"]
       /\ UNCHANGED <<cmvars, hvars, sched, spans, cap>>

\* the index line - 1 wraps to when line is 0 and overflow is not checked: u32::MAX,
\* written here as the largest index TLC has; both lie past the last line of any file
WrappedLineIndex == 2147483647

\* (line - 1).into() on a u32: nothing where the build checks overflow and line is 0
LineIndexOf(line) ==
    IF line >= 1 THEN {Some(line - 1)} ELSE {None, Some(WrappedLineIndex)}

\* with_label_and_file_id from codemap.get on: get(id).unwrap(), line - 1,
\* line_span(..).expect("invalid line index"), labels.push
WithLabelAndFileId ==
    LET f == Get(bld.id.val)
        Panic(why) == bld' = [bld EXCEPT !.pc = "panicked", !.why = why]
    IN /\ bld.pc = "get"
       /\ IF ~f.some
          THEN Panic("unwrap")
          ELSE \E li \in LineIndexOf(bld.line) :
                  IF ~li.some
                  THEN bld' = [bld EXCEPT !.pc = "panicked", !.why = "overflow",
                                          !.resolved = TRUE]
                  ELSE LET span == FileLineSpan(f.val, li.val)
                       IN IF ~span.ok
                          THEN bld' = [bld EXCEPT !.pc = "panicked", !.why = "expect",
                                                  !.resolved = TRUE]
                          ELSE bld' = [bld EXCEPT
                                          !.pc = "done", !.resolved = TRUE,
                                          !.labels = Append(@, LabelNew(
                                              bld.style, bld.id.val,
                                              SourceSpanOf(bld.id.val, span.val.start,
                                                           span.val.end),
                                              bld.message))]
       /\ UNCHANGED <<cmvars, hvars, sched, spans, cap>>

\* one step of the builder
BuilderStep ==
    \/ \E s \in BuilderSeverities : Diagnostic(s)
    \/ \E n \in FileNames : SetSourceFile(n)
    \/ \E l \in Lines, m \in LabelMessages : WithPrimaryLabelLineAndCol(l, m)
    \/ \E st \in LabelStyles, n \in {None} \cup {Some(x) : x \in FileNames},
          l \in Lines, m \in LabelMessages : WithLabel(st, n, l, m)
    \/ WithLabelAndFileId

\* -------------------------------------------------------------- SourceSpan
\* SourceIndex::new(source_id, index)
SourceIndexNew(source_id, index) == [source_id |-> source_id, index |-> index]

\* the file ids, byte indices and byte offsets spans are built from: SourceId::UNKNOWN
\* and two files
SpanIds == {SourceIdUNKNOWN, 1, 2}
ByteIndices == 0..MaxByte
ByteOffsets == 0..MaxByte
SourceIndices == {SourceIndexNew(id, i) : id \in SpanIds, i \in ByteIndices}

\* all spans over these, and those with start <= end
AllSpans == {SourceSpanOf(id, s, e) : id \in SpanIds, s \in ByteIndices, e \in ByteIndices}
OrderedSpans == {x \in AllSpans : x.start <= x.end}

\* a panic that unwinds out of the call
Abort(message) == [ok |-> FALSE, panic |-> message]

\* SourceSpan::new: assert_eq! on the two file ids, then the fields as given
\* (SourceSpanNewUnchecked: a faulty variant without the assertion)
SourceSpanNewUnchecked(start, end) ==
    Ok(SourceSpanOf(start.source_id, start.index, end.index))

SourceSpanNew(start, end) ==
    IF start.source_id # end.source_id
    THEN Abort("source spans cannot start and end in different files!")
    ELSE Ok(SourceSpanOf(start.source_id, start.index, end.index))

\* SourceSpan::is_unknown: equality with SourceSpan::UNKNOWN on all three fields
IsUnknown(span) == span = SourceSpanUNKNOWN

\* SourceSpan::shrink_front: start += offset.  The sum wraps only past u32::MAX;
\* MaxByte keeps every sum far below that.
ShrinkFront(span, offset) == [span EXCEPT !.start = @ + offset]

Min(x, y) == IF x <= y THEN x ELSE y
Max(x, y) == IF x >= y THEN x ELSE y

\* SourceSpan::merge
\* (MergeSameStart: a faulty variant that takes two spans with one start for one span)
MergeSameStart(a, b) ==
    IF IsUnknown(a) \/ IsUnknown(b) THEN None
    ELSE IF a.source_id # b.source_id THEN None
    ELSE IF a.start = b.start THEN Some(a)
    ELSE Some(SourceSpanOf(a.source_id, Min(a.start, b.start), Max(a.end, b.end)))

Merge(a, b) ==
    IF IsUnknown(a) \/ IsUnknown(b) THEN None
    ELSE IF a.source_id # b.source_id THEN None
    ELSE LET r == SourceSpanNew(
                      SourceIndexNew(a.source_id, Min(a.start, b.start)),
                      SourceIndexNew(a.source_id, Max(a.end, b.end)))
         IN IF r.ok THEN Some(r.val) ELSE r

\* merge with an argument that may be absent: absent then
MergeOpt(x, y) == IF x.some /\ y.some THEN Merge(x.val, y.val) ELSE None

\* SourceSpan::start and SourceSpan::end
SpanStart(span) == SourceIndexNew(span.source_id, span.start)
SpanEnd(span) == SourceIndexNew(span.source_id, span.end)

NoSpans ==
    [a |-> SourceSpanUNKNOWN, b |-> SourceSpanUNKNOWN,
     op |-> "none", args |-> << >>, out |-> None]

SpanInit == spans = NoSpans

\* SourceSpan::new applied to an index and the end of b; the span, if there is
\* one, becomes a
SpanNew(start) ==
    LET end == SpanEnd(spans.b)
        r == SourceSpanNew(start, end)
    IN /\ spans' = [spans EXCEPT !.op = "new", !.args = <<start, end>>, !.out = r,
                           !.a = IF r.ok THEN r.val ELSE @]
       /\ UNCHANGED <<cmvars, hvars, sched, bld, cap>>

\* shrink_front applied to a
SpanShrinkFront(offset) ==
    /\ spans.a.start + offset <= MaxByte
    /\ spans' = [spans EXCEPT !.op = "shrink_front", !.args = <<spans.a, offset>>,
                        !.out = Some(ShrinkFront(spans.a, offset)),
                        !.a = ShrinkFront(spans.a, offset)]
    /\ UNCHANGED <<cmvars, hvars, sched, bld, cap>>

\* merge applied to a and b; the span, if there is one, becomes b
SpanMerge ==
    LET r == Merge(spans.a, spans.b)
    IN /\ spans' = [spans EXCEPT !.op = "merge", !.args = <<spans.a, spans.b>>, !.out = r,
                           !.b = IF r.some THEN r.val ELSE @]
       /\ UNCHANGED <<cmvars, hvars, sched, bld, cap>>

\* one operation on the spans in hand
SpanStep ==
    \/ \E start \in SourceIndices : SpanNew(start)
    \/ \E offset \in ByteOffsets : SpanShrinkFront(offset)
    \/ SpanMerge

\* ---------------------------------------------------------- CaptureEmitter
\* a byte that is no UTF-8 on its own, and the character from_utf8_lossy puts
\* in its place
InvalidByte == 255
ReplacementCharacter == 65533

\* the buffers handed to print: rendered text, and text with a byte that is no
\* UTF-8
Buffers == {<<97, 98>>, <<99, InvalidByte>>}

\* String::from_utf8_lossy on bytes that are ASCII or InvalidByte
FromUtf8Lossy(bytes) ==
    [i \in DOMAIN bytes |-> IF bytes[i] < 128 THEN bytes[i] ELSE ReplacementCharacter]

\* parking_lot::Mutex: 0 when free, else the thread that holds it; lock() goes
\* on only when it is free
\* (MutexFreeAlways: a faulty variant that never waits)
MutexFreeAlways(m) == TRUE

MutexFree(m) == m = 0

\* CaptureEmitter::new
CaptureEmitterNew ==
    [buffer |-> << >>, lock |-> 0,
     pc |-> [t \in HThreads |-> "idle"],
     arg |-> [t \in HThreads |-> << >>],
     bytes |-> [t \in HThreads |-> << >>],
     completed |-> << >>, nprints |-> 0, read |-> << >>]

CaptureInit == cap = CaptureEmitterNew

\* CaptureEmitter::print: buffer.into_inner()
PrintEnter(t, buffer) ==
    /\ cap.pc[t] \in {"idle", "done"}
    /\ cap.nprints < MaxHCalls
    /\ cap' = [cap EXCEPT !.pc[t] = "lock", !.arg[t] = buffer, !.bytes[t] = buffer,
                          !.nprints = @ + 1]
    /\ UNCHANGED <<cmvars, hvars, sched, bld, spans>>

\* print: self.buffer.lock()
PrintLock(t) ==
    /\ cap.pc[t] = "lock"
    /\ MutexFree(cap.lock)
    /\ cap' = [cap EXCEPT !.lock = t,
                          !.pc[t] = IF cap.bytes[t] = << >> THEN "unlock" ELSE "append"]
    /\ UNCHANGED <<cmvars, hvars, sched, bld, spans>>

\* print: buf.append(&mut bytes), one byte of the copy at a time
PrintAppend(t) ==
    /\ cap.pc[t] = "append"
    /\ cap' = [cap EXCEPT !.buffer = Append(@, Head(cap.bytes[t])),
                          !.bytes[t] = Tail(@),
                          !.pc[t] = IF Len(cap.bytes[t]) = 1 THEN "unlock" ELSE "append"]
    /\ UNCHANGED <<cmvars, hvars, sched, bld, spans>>

\* print: the guard is dropped and Ok(()) returned
PrintUnlock(t) ==
    /\ cap.pc[t] = "unlock"
    /\ cap' = [cap EXCEPT !.lock = 0, !.pc[t] = "done",
                          !.completed = Append(@, cap.arg[t])]
    /\ UNCHANGED <<cmvars, hvars, sched, bld, spans>>

\* CaptureEmitter::captured: lock, from_utf8_lossy of the bytes, unlock
Captured ==
    /\ MutexFree(cap.lock)
    /\ cap' = [cap EXCEPT !.read = FromUtf8Lossy(cap.buffer)]
    /\ UNCHANGED <<cmvars, hvars, sched, bld, spans>>

\* one step of thread t in print
PrintStep(t) ==
    \/ \E buffer \in Buffers : PrintEnter(t, buffer)
    \/ PrintLock(t)
    \/ PrintAppend(t)
    \/ PrintUnlock(t)

\* ---------------------------------------------------------- specifications
\* the registry under threads whose calls interleave freely; the handler is not called
Init == RegistryInit /\ HandlerInit(DefaultConfig) /\ BuilderInit /\ SpanInit /\ CaptureInit /\ sched = "interleaved"

Next == \E t \in Threads : Step(t)

Spec == Init /\ [][Next]_vars

\* the registry with one call at a time
SeqInit == RegistryInit /\ HandlerInit(DefaultConfig) /\ BuilderInit /\ SpanInit /\ CaptureInit /\ sched = "sequential"

SeqSpec == SeqInit /\ [][Next]_vars

\* a handler of any configuration under threads whose calls interleave freely
HandlerSpecInit ==
    RegistryInit /\ (\E c \in Configs : HandlerInit(c)) /\ BuilderInit /\ SpanInit /\ CaptureInit
    /\ sched = "interleaved"

HandlerNext == \E t \in HThreads : HStep(t)

HandlerSpec == HandlerSpecInit /\ [][HandlerNext]_vars

\* a handler of any configuration with one call at a time
HandlerSeqInit ==
    RegistryInit /\ (\E c \in Configs : HandlerInit(c)) /\ BuilderInit /\ SpanInit /\ CaptureInit
    /\ sched = "sequential"

HandlerSeqSpec == HandlerSeqInit /\ [][HandlerNext]_vars

\* every operation of the handler, calls interleaving freely
HandlerOpsNext == \E t \in HThreads : HStep(t) \/ HStatusStep(t)

HandlerOpsSpec == HandlerSpecInit /\ [][HandlerOpsNext]_vars

\* every operation of the handler, one call at a time
HandlerOpsSeqSpec == HandlerSeqInit /\ [][HandlerOpsNext]_vars

\* every operation of the handler and fatal, one call at a time
HandlerFatalNext ==
    \E t \in HThreads : HStep(t) \/ HStatusStep(t) \/ (\E m \in Messages : Fatal(t, m))

HandlerFatalSeqSpec == HandlerSeqInit /\ [][HandlerFatalNext]_vars

\* the registry with one registration at a time, and a builder that attaches labels by
\* file name and line at any moment, also in the middle of a registration
BuilderNext == (\E t \in Threads : Step(t)) \/ BuilderStep

BuilderSpec == SeqInit /\ [][BuilderNext]_vars

\* the span operations, from any two spans with start <= end
SpanSpecInit ==
    /\ RegistryInit /\ HandlerInit(DefaultConfig) /\ BuilderInit /\ CaptureInit
    /\ sched = "sequential"
    /\ \E a \in OrderedSpans, b \in OrderedSpans :
          spans = [NoSpans EXCEPT !.a = a, !.b = b]

SpanSpec == SpanSpecInit /\ [][SpanStep]_vars

\* print calls on one capture sink interleaving freely, and captured() at any
\* moment
CaptureNext == (\E t \in HThreads : PrintStep(t)) \/ Captured

CaptureSpec == Init /\ [][CaptureNext]_vars

\* ------------------------------------------------------- registry properties
Quiet == \A t \in Threads : pc[t] \in {"idle", "done"}

\* thread t starts a call in this step
NewCall(t) == call'[t].seq # call[t].seq

RealCall(c) == c.op \in {"add", "add_file"} /\ c.name.kind = "Real"

\* the registration that minted id
RegOf(id) == reg[CHOOSE i \in DOMAIN reg : reg[i].id = id]

\* C1: under every interleaving of add, add_file and add_child, no two registrations
\* are handed the same id, no minted id is SourceId::UNKNOWN, the first minted id is 1,
\* and an id once minted is never minted again.
C1_UniqueIds ==
    /\ \A i, j \in DOMAIN reg : i # j => reg[i].id # reg[j].id
    /\ \A i \in DOMAIN reg : reg[i].id # SourceIdUNKNOWN
    /\ reg # << >> => reg[1].id = 1

\* two threads have minted an id each and are both still inside insert_file
C1_Witness ==
    \E t, u \in Threads :
        /\ t # u
        /\ pc[t] = "names_insert" /\ pc[u] = "names_insert"
        /\ call[t].op = "add" /\ call[u].op = "add_child"

\* C2: the id-to-file index only grows, and an id that get resolves always resolves to
\* the SourceFile (id, name, content, parent) of the registration that minted it; this
\* covers the id minted by the loser of a race for a real path.
C2_FilesAppendOnly ==
    /\ [](\A id \in DOMAIN files :
            /\ \E i \in DOMAIN reg : reg[i].id = id
            /\ Get(id) = Some(SourceFileNew(id, RegOf(id).name, RegOf(id).source,
                                            RegOf(id).parent)))
    /\ [][\A id \in DOMAIN files : id \in DOMAIN files' /\ files'[id] = files[id]]_vars

\* both racing registrations of a path have returned; the loser's id still resolves
C2_Witness ==
    /\ Quiet
    /\ \E p \in Paths, id \in DOMAIN files :
          /\ p \in DOMAIN seen /\ seen[p] # id
          /\ RealCall(RegOf(id)) /\ RegOf(id).name.text = p
          /\ Get(id).some

\* C3 as stated: the id a registration call returns resolves to a file whose content is
\* the content that call registered.
C3_ReturnedContentIsOwn ==
    \A t \in Threads :
        (pc[t] = "done" /\ call[t].ret.kind = "id" /\ call[t].source \in Contents) =>
            /\ Get(call[t].ret.id).some
            /\ Get(call[t].ret.id).val.source = call[t].source

\* C3, amended: the id a registration call returns resolves to a file whose content is the
\* content of the registration that minted that id; that is the call's own content
\* whenever the call returns the id it minted itself, which every add under a virtual
\* name and every add_child does.
C3_ReturnedContent ==
    \A t \in Threads :
        (pc[t] = "done" /\ call[t].ret.kind = "id") =>
            /\ Get(call[t].ret.id).some
            /\ \E i \in DOMAIN reg : reg[i].id = call[t].ret.id
            /\ Get(call[t].ret.id).val.source = RegOf(call[t].ret.id).source
            /\ (call[t].file_id = call[t].ret.id =>
                    Get(call[t].ret.id).val.source = call[t].source)
            /\ (~RealCall(call[t]) => call[t].file_id = call[t].ret.id)

\* a real-path add was handed the id of an earlier registration with other content,
\* while another call returned the id it minted
C3_Witness ==
    \E t, u \in Threads :
        /\ pc[t] = "done" /\ call[t].op = "add" /\ call[t].ret.kind = "id"
        /\ call[t].file_id # call[t].ret.id
        /\ Get(call[t].ret.id).val.source # call[t].source
        /\ pc[u] = "done" /\ call[u].ret.kind = "id" /\ call[u].file_id = call[u].ret.id

\* C4: once two racing registrations of one real path have both returned, the name index
\* and the path index resolve that path to the same single id.
C4_SingleWinner ==
    \A t, u \in Threads :
        (/\ t # u /\ Quiet
         /\ RealCall(call[t]) /\ RealCall(call[u]) /\ call[t].name = call[u].name
         /\ call[t].file_id # SourceIdUNKNOWN /\ call[u].file_id # SourceIdUNKNOWN
         /\ call[t].ret.kind = "id" /\ call[u].ret.kind = "id") =>
            /\ GetFileId(call[t].name) = MapGet(seen, call[t].name.text)
            /\ GetByName(call[t].name) = Get(seen[call[t].name.text])

\* C5: with one call at a time, every add / add_file of one real path returns the same
\* id; a call on a path the path index already holds returns that id at once, mints
\* nothing and adds nothing to any index; an entry of the path index never changes.
C5_SeqDedup ==
    /\ [](\A p \in Paths : Cardinality(returned[p]) <= 1)
    /\ [][\A t \in Threads :
            (NewCall(t) /\ RealCall(call'[t]) /\ call'[t].name.text \in DOMAIN seen) =>
                /\ pc'[t] = "done"
                /\ call'[t].ret = RetId(seen[call'[t].name.text])
                /\ UNCHANGED <<files, names, seen, next_file_id, reg>>]_vars
    /\ [][\A p \in DOMAIN seen : p \in DOMAIN seen' /\ seen'[p] = seen[p]]_vars

\* add_file of a path that add registered before returned add's id without minting
C5_Witness ==
    \E t \in Threads, p \in Paths :
        /\ pc[t] = "done" /\ call[t].op = "add_file" /\ call[t].name.text = p
        /\ call[t].file_id = SourceIdUNKNOWN
        /\ call[t].ret.kind = "id" /\ returned[p] = {call[t].ret.id}
        /\ RegOf(call[t].ret.id).op = "add"
        /\ Len(reg) = 1

\* C6: with one call at a time, two registrations under one virtual name get distinct
\* ids, each id keeps resolving to its own content, and once the calls have returned
\* get_by_name resolves the name to the file of the later registration.
C6_VirtualNoDedup ==
    Quiet =>
        \A i, j \in DOMAIN reg :
            (i < j /\ reg[i].name = reg[j].name /\ reg[i].name.kind = "Virtual") =>
                /\ reg[i].id # reg[j].id
                /\ Get(reg[i].id).some /\ Get(reg[i].id).val.source = reg[i].source
                /\ Get(reg[j].id).some /\ Get(reg[j].id).val.source = reg[j].source
                /\ ((\A k \in DOMAIN reg : k > j => reg[k].name # reg[j].name) =>
                        GetByName(reg[j].name) = Get(reg[j].id))

\* two adds under one virtual name, with different content, have returned
C6_Witness ==
    /\ Quiet
    /\ \E i, j \in DOMAIN reg :
          /\ i < j /\ reg[i].name = reg[j].name /\ reg[i].name.kind = "Virtual"
          /\ reg[i].op = "add" /\ reg[j].op = "add"
          /\ reg[i].source # reg[j].source
          /\ GetByName(reg[j].name).val.source = reg[j].source
\* ------------------------------------------------------- handler properties
HQuiet == \A t \in HThreads : hpc[t] \in {"idle", "done"}

\* the buffers in the sink that hold a diagnostic rendered with severity Error
ErrorDiagnostics == {i \in DOMAIN sink : sink[i].kind = "diagnostic" /\ sink[i].severity = "Error"}

\* thread t's call has returned and no call has started since it did
Returned(t) == hpc[t] = "done" /\ hcall[t].seq = nhcalls

\* the counter and the sink are as this call found them
HNoEffect(c) == err_count = c.pre_count /\ Len(sink) = c.pre_sink

\* C7: under every interleaving of emit and failed calls, once all calls have returned
\* the error counter is the number of diagnostics emitted with severity Error after
\* arbitration plus the number of failed calls.
C7_ExactCount ==
    HQuiet => err_count = Cardinality(ErrorDiagnostics) + nfailed

\* an emitted error, a promoted warning or a failed call: two of them counted while both
\* calls were in flight
C7_Witness ==
    /\ HQuiet
    /\ err_count = 2
    /\ \E t, u \in HThreads :
          /\ t # u
          /\ hcall[t].op = "failed" /\ hcall[u].op = "emit" /\ hcall[u].severity = "Warning"
          /\ hcall[t].pre_count = 0 /\ hcall[u].pre_count = 0

\* C8: with warnings_as_errors set, on a handler that is not silent and does not
\* suppress warnings, emit of a Warning diagnostic adds exactly one to the error counter
\* and hands the renderer the diagnostic with severity Error.
C8_WarningPromoted ==
    \A t \in HThreads :
        (/\ Returned(t) /\ hcall[t].op = "emit" /\ hcall[t].severity = "Warning"
         /\ handler.warnings_as_errors /\ ~handler.silent /\ ~handler.no_warn) =>
            /\ err_count = hcall[t].pre_count + 1
            /\ Len(sink) = hcall[t].pre_sink + 1
            /\ sink[Len(sink)] = RenderDiagnostic("Error", hcall[t].message)

C8_Witness ==
    \E t \in HThreads :
        /\ Returned(t) /\ hcall[t].op = "emit" /\ hcall[t].severity = "Warning"
        /\ handler.warnings_as_errors /\ ~handler.silent /\ ~handler.no_warn
        /\ hcall[t].pre_count = 1 /\ err_count = 2

\* C9: with no_warn set, whatever warnings_as_errors and verbosity are, emit of a
\* Warning diagnostic leaves the error counter unchanged and prints nothing.
C9_WarningSuppressed ==
    \A t \in HThreads :
        (Returned(t) /\ hcall[t].severity = "Warning" /\ handler.no_warn) =>
            HNoEffect(hcall[t])

C9_Witness ==
    \E t \in HThreads :
        /\ Returned(t) /\ hcall[t].op = "emit" /\ hcall[t].severity = "Warning"
        /\ config.no_warn /\ config.warnings_as_errors /\ config.verbosity = "Debug"
        /\ HNoEffect(hcall[t])

\* C10: a Note diagnostic, through emit or through note, prints nothing and leaves the
\* counter unchanged when verbosity is stricter than Info; when verbosity is Info or
\* Debug it is rendered as a Note and printed, and the counter is still unchanged.
C10_NoteByVerbosity ==
    \A t \in HThreads :
        (Returned(t) /\ hcall[t].op \in {"emit", "note"} /\ hcall[t].severity = "Note") =>
            IF VerbosityGt(config.verbosity, "Info")
            THEN HNoEffect(hcall[t])
            ELSE /\ err_count = hcall[t].pre_count
                 /\ Len(sink) = hcall[t].pre_sink + 1
                 /\ sink[Len(sink)] = RenderDiagnostic("Note", hcall[t].message)

\* under verbosity Warning an emitted Note and then a note() call both returned with
\* nothing printed and nothing counted
C10_Witness ==
    \E t, u \in HThreads :
        /\ Returned(t) /\ hcall[t].op = "note"
        /\ hpc[u] = "done" /\ hcall[u].op = "emit" /\ hcall[u].severity = "Note"
        /\ config.verbosity = "Warning"
        /\ HNoEffect(hcall[t]) /\ HNoEffect(hcall[u])

\* thread t starts a call on the handler in this step
NewHCall(t) == hcall'[t].seq # hcall[t].seq

\* C11: on a handler built with verbosity Silent, emit of a diagnostic of any severity
\* returns at once: the call never reaches the increment or emitter.buffer(), and the
\* error counter and the sink are as the call found them.
C11_SilentDiscards ==
    /\ [](\A t \in HThreads :
            (Returned(t) /\ hcall[t].op = "emit" /\ config.verbosity = "Silent") =>
                HNoEffect(hcall[t]))
    /\ [][\A t \in HThreads :
            (NewHCall(t) /\ hcall'[t].op = "emit" /\ config.verbosity = "Silent") =>
                /\ hpc'[t] = "done"
                /\ UNCHANGED <<err_count, sink>>]_vars

\* a silent handler has discarded an Error diagnostic after a failed call was counted
C11_Witness ==
    \E t \in HThreads :
        /\ Returned(t) /\ hcall[t].op = "emit" /\ hcall[t].severity = "Error"
        /\ config.verbosity = "Silent"
        /\ hcall[t].pre_count = 1 /\ err_count = 1 /\ Len(sink) = 1

EntrySeverity(op) ==
    CASE op = "error" -> "Error" [] op = "warn" -> "Warning" [] op = "note" -> "Note"

\* the effect emit has with a one-message diagnostic of this severity, seen from a
\* call c that has returned
EffectOfEmit(c, severity) ==
    LET r == EmitPolicy(handler, severity)
    IN IF r.discard
       THEN HNoEffect(c)
       ELSE /\ err_count = c.pre_count + (IF r.severity = "Error" THEN 1 ELSE 0)
            /\ Len(sink) = c.pre_sink + 1
            /\ sink[Len(sink)] = RenderDiagnostic(r.severity, c.message)

\* C13: for every configuration and message, error, warn and note have the effect on the
\* error counter and on the sink that emit has with a one-message diagnostic of severity
\* Error, Warning and Note.
C13_SamePolicy ==
    \A t \in HThreads :
        (Returned(t) /\ hcall[t].op \in {"error", "warn", "note"}) =>
            EffectOfEmit(hcall[t], EntrySeverity(hcall[t].op))

\* whether the line of info or of debug is written, as a function of verbosity alone
StatusShown(op, verbosity) ==
    CASE op = "info" -> verbosity \in {"Debug", "Info"}
      [] op = "debug" -> verbosity = "Debug"

\* C14: for every configuration, info, debug, notice and success leave the error counter
\* as it was; info writes its line exactly when verbosity is Debug or Info and debug
\* exactly when it is Debug, whatever warnings_as_errors and no_warn are; failed adds
\* exactly one to the counter.
C14_StatusLines ==
    \A t \in HThreads :
        Returned(t) =>
            /\ (hcall[t].op \in {"info", "debug", "notice", "success"} =>
                    err_count = hcall[t].pre_count)
            /\ (hcall[t].op \in {"info", "debug"} =>
                    IF StatusShown(hcall[t].op, config.verbosity)
                    THEN /\ Len(sink) = hcall[t].pre_sink + 1
                         /\ sink[Len(sink)] = RenderTagged(hcall[t].op, hcall[t].message)
                    ELSE Len(sink) = hcall[t].pre_sink)
            /\ (hcall[t].op = "failed" => err_count = hcall[t].pre_count + 1)

\* with no_warn and warnings_as_errors both set, info wrote its line after failed was
\* counted
C14_Witness ==
    \E t, u \in HThreads :
        /\ Returned(t) /\ hcall[t].op = "info"
        /\ config.no_warn /\ config.warnings_as_errors /\ config.verbosity = "Info"
        /\ Len(sink) = hcall[t].pre_sink + 1
        /\ hcall[u].op = "failed" /\ hcall[u].pre_count = 0 /\ err_count = 1

\* C15: under every interleaving of the handler's operations the policy flags stay as
\* DiagnosticsHandler::new set them, the error counter never decreases, and has_errors,
\* once true, stays true.
C15_PolicyFixed ==
    /\ [](handler = DiagnosticsHandlerNew(config))
    /\ [][/\ handler' = handler
          /\ config' = config
          /\ err_count' >= err_count
          /\ (err_count > 0 => err_count' > 0)]_vars

\* has_errors answered true after failed was counted, on a handler as new built it
C15_Witness ==
    \E t, u \in HThreads :
        /\ hpc[t] = "done" /\ hcall[t].op = "has_errors" /\ hcall[t].res = "true"
        /\ hpc[u] = "done" /\ hcall[u].op = "failed"
        /\ err_count = 1 /\ handler = DiagnosticsHandlerNew(config)

\* -------------------------------------------- registry properties, continued
\* the ids and spans lookups are tried with: SourceId::UNKNOWN, every id the bounded run
\* can mint, and one it cannot
LookupIds == 0..(MaxCalls + 1)
LookupSpans == {SourceSpanOf(id, 0, e) : id \in LookupIds, e \in 0..1}

\* the id-to-file index has no file for this id
Missing(file_id) == file_id = SourceIdUNKNOWN \/ file_id \notin DOMAIN files

\* C16: in every reachable state of the registry, under every interleaving of the
\* registering calls, a lookup by SourceId::UNKNOWN, by SourceSpan::UNKNOWN or by an id
\* or span of an id that the id-to-file index does not hold answers with the
\* file-missing error (parent: with nothing), never with a file or a panic.
C16_LookupsFailCleanly ==
    /\ \A id \in LookupIds :
          Missing(id) =>
              /\ Get(id) = None
              /\ GetResult(id) = ErrFileMissing
              /\ Name(id) = ErrFileMissing
              /\ SourceSpan(id) = ErrFileMissing
              /\ Parent(id) = None
              /\ \A line, column \in 0..1 :
                    LineColumnToSpan(id, line, column) = ErrFileMissing
    /\ \A span \in LookupSpans :
          Missing(span.source_id) =>
              /\ GetWithSpan(span) = ErrFileMissing
              /\ SourceSlice(span) = ErrFileMissing
              /\ Location(span) = ErrFileMissing
    /\ SourceSpanUNKNOWN \in LookupSpans

\* a child's id is minted and already in the name index but not yet in the id-to-file
\* index, while another file is: the lookups by that id fail, those by the other resolve
C16_Witness ==
    \E t \in Threads, id \in DOMAIN files :
        /\ pc[t] = "files_insert" /\ call[t].op = "add_child"
        /\ GetFileId(call[t].name) = Some(call[t].file_id)
        /\ Missing(call[t].file_id)
        /\ Parent(call[t].file_id) = None
        /\ Name(call[t].file_id) = ErrFileMissing
        /\ Name(id).ok /\ SourceSpan(id).ok

\* C17: an add_file whose read fails returns the I/O error in the step that found the
\* path missing from the path index, and that step leaves the id counter and the three
\* indexes as they were: no id is minted for the call.
C17_ReadFailureLeavesNothing ==
    /\ [](\A t \in Threads :
            (pc[t] = "done" /\ call[t].ret = RetErr) =>
                /\ call[t].op = "add_file"
                /\ call[t].file_id = SourceIdUNKNOWN
                /\ \A i \in DOMAIN reg : reg[i].id < next_file_id)
    /\ [](next_file_id = Len(reg) + 1)
    /\ [][\A t \in Threads :
            (NewCall(t) /\ call'[t].ret = RetErr) =>
                /\ call'[t].name.text \notin DOMAIN seen
                /\ UNCHANGED <<files, names, seen, next_file_id, reg>>]_vars

\* an add_file failed on its read while another registration was between minting its
\* id and inserting its file
C17_Witness ==
    \E t, u \in Threads :
        /\ pc[t] = "done" /\ call[t].op = "add_file" /\ call[t].ret = RetErr
        /\ pc[u] = "names_insert" /\ call[u].seq < call[t].seq
        /\ next_file_id = 2 /\ files = EmptyMap /\ names = EmptyMap /\ seen = EmptyMap

\* C19: parent of an id that add_child returned is the parent span of that call; parent
\* of an id minted by add or add_file is nothing, in every state; and the parent of an
\* id in the id-to-file index never changes.
C19_LineageFixed ==
    /\ [](\A t \in Threads :
            (pc[t] = "done" /\ call[t].op = "add_child") =>
                /\ call[t].ret.kind = "id"
                /\ call[t].parent.some
                /\ Parent(call[t].ret.id) = call[t].parent)
    /\ [](\A i \in DOMAIN reg :
            /\ reg[i].op \in {"add", "add_file"} => Parent(reg[i].id) = None
            /\ (reg[i].op = "add_child" /\ reg[i].id \in DOMAIN files) =>
                    Parent(reg[i].id) = reg[i].parent /\ reg[i].parent.some)
    /\ [][\A id \in DOMAIN files :
            id \in DOMAIN files' /\ files'[id].parent = files[id].parent]_vars

\* a child and then a plain file were registered under one name: the child keeps its
\* parent span and the plain file has none
C19_Witness ==
    /\ Quiet
    /\ \E i, j \in DOMAIN reg :
          /\ i < j /\ reg[i].name = reg[j].name
          /\ reg[i].op = "add_child" /\ reg[j].op = "add"
          /\ Parent(reg[i].id) = Some(SourceSpanOf(1, 0, 1))
          /\ Parent(reg[j].id) = None

\* the ids handed out so far
MintedIds == {reg[i].id : i \in DOMAIN reg}

\* thread t takes this step
Moves(t) == pc'[t] # pc[t] \/ call'[t] # call[t]

\* C20: under every interleaving, add_child mints an id no registration was given before
\* and returns it, whatever the name indexes hold for its name; no step of an add_child
\* call changes the path index; and every id in the path index or returned by add /
\* add_file for a real path was minted by an add or add_file of that path.
C20_ChildNeverDeduplicated ==
    /\ [](\A t \in Threads :
            (pc[t] = "done" /\ call[t].op = "add_child") =>
                /\ call[t].ret = RetId(call[t].file_id)
                /\ call[t].file_id \in MintedIds
                /\ RegOf(call[t].file_id).op = "add_child")
    /\ [](\A p \in Paths :
            \A id \in returned[p] \cup {seen[q] : q \in DOMAIN seen \cap {p}} :
                /\ id \in MintedIds
                /\ RegOf(id).op \in {"add", "add_file"}
                /\ RegOf(id).name = FileNameReal(p))
    /\ [][\A t \in Threads :
            (Moves(t) /\ call'[t].op = "add_child") =>
                /\ seen' = seen
                /\ returned' = returned
                /\ (pc[t] = "next_file_id" =>
                        call'[t].file_id \notin MintedIds \cup DOMAIN files)]_vars

\* a child registered under a real path's name, then add of that path: add did not get
\* the child's id but minted its own and claimed the path with it
C20_Witness ==
    /\ Quiet
    /\ \E p \in Paths, i, j \in DOMAIN reg :
          /\ i < j
          /\ reg[i].op = "add_child" /\ reg[i].name = FileNameReal(p)
          /\ reg[j].op = "add" /\ reg[j].name = FileNameReal(p)
          /\ p \in DOMAIN seen /\ seen[p] = reg[j].id
          /\ returned[p] = {reg[j].id}
          /\ Get(reg[i].id).some

\* --------------------------------------------------------- builder properties
\* a label was to be attached by file name and line, and the resolution failed: the name
\* had no id, or the id resolved to a file of which the line is no line
ResolutionFailed ==
    /\ bld.op \in {"with_label", "with_primary_label_line_and_col"}
    /\ bld.pc \in {"done", "panicked"}
    /\ \/ ~bld.id.some
       \/ /\ bld.resolved
          /\ (bld.line < 1 \/ bld.line > LineCount(files[bld.id.val].source))

\* C18: when attaching a label by file name and line fails to resolve, because the name
\* is not registered or because the line (0, or one past the end) is no line of the
\* file, the call returns normally and the diagnostic's labels are as they were.
C18_LabelSilentlyDropped ==
    ResolutionFailed => bld.pc = "done" /\ bld.labels = bld.pre_labels

\* ---------------------------------------------------------- span properties
Ordered(span) == span.start <= span.end

\* the file id of a span is a file's, not SourceId::UNKNOWN
KnownFile(span) == span.source_id # SourceIdUNKNOWN

\* C21: SourceSpan::new aborts whenever its two indices carry different file
\* ids, and succeeds whenever they carry the same id and start <= end, yielding
\* a span with that id and exactly those two offsets.
C21_NewChecksFiles ==
    spans.op = "new" =>
        LET start == spans.args[1]
            end == spans.args[2]
        IN /\ start.source_id # end.source_id =>
                  /\ ~spans.out.ok
                  /\ spans.out = Abort("source spans cannot start and end in different files!")
           /\ (start.source_id = end.source_id /\ start.index <= end.index) =>
                  /\ spans.out = Ok(SourceSpanOf(start.source_id, start.index, end.index))
                  /\ spans.a = spans.out.val

\* new was given indices of two different files, and aborted
C21_Witness ==
    /\ spans.op = "new"
    /\ spans.args[1].source_id = 1 /\ spans.args[2].source_id = 2
    /\ ~spans.out.ok

\* C22: every span produced by SourceSpan::new, by shrink_front applied to a
\* span with start <= end, and by merge of two spans with start <= end, has
\* start <= end.
C22_StartBeforeEnd ==
    /\ (spans.op = "new" /\ spans.out.ok) => Ordered(spans.out.val)
    /\ (spans.op = "shrink_front" /\ Ordered(spans.args[1])) => Ordered(spans.out.val)
    /\ (spans.op = "merge" /\ Ordered(spans.args[1]) /\ Ordered(spans.args[2])
            /\ spans.out.some) => Ordered(spans.out.val)

\* C23: merge(a, b) yields a span exactly when the file ids of a and b are both
\* not UNKNOWN and are equal (so it yields nothing for spans whose file id is
\* UNKNOWN, whatever their offsets); the span it yields has that file, the
\* smaller start and the larger end; merge(b, a) is the same; and merge yields
\* nothing when either argument is SourceSpan::UNKNOWN.
C23_MergeDefined ==
    spans.op = "merge" =>
        LET a == spans.args[1]
            b == spans.args[2]
        IN /\ spans.out.some <=>
                  (KnownFile(a) /\ KnownFile(b) /\ a.source_id = b.source_id)
           /\ spans.out.some =>
                  spans.out.val = SourceSpanOf(a.source_id, Min(a.start, b.start),
                                               Max(a.end, b.end))
           /\ Merge(b, a) = spans.out
           /\ (IsUnknown(a) \/ IsUnknown(b)) => spans.out = None

\* C24: merge is associative: for the two spans in hand and any third span, of
\* one file or not, merging a with b and the result with c gives what merging
\* a with the result of b and c gives, where a merge with an absent argument is
\* absent.
C24_MergeAssociative ==
    \A c \in AllSpans :
        MergeOpt(MergeOpt(Some(spans.a), Some(spans.b)), Some(c))
            = MergeOpt(Some(spans.a), MergeOpt(Some(spans.b), Some(c)))

\* two different spans of one file with one start were merged, and the result
\* merges with a third span of that file
C24_Witness ==
    /\ spans.op = "merge" /\ spans.out.some
    /\ spans.args[1].source_id = 1
    /\ spans.args[1] # spans.args[2]
    /\ spans.args[1].start = spans.args[2].start
    /\ spans.a = spans.args[1]
    /\ \E c \in OrderedSpans : c.start > spans.b.start /\ Merge(spans.b, c).some

\* ------------------------------------------------ registration, step by step
\* thread t is inside insert_file with its id minted and the name index not yet
\* written for this registration
NameUnwritten(t) == pc[t] = "names_insert"

\* C25: a registration writes the id-to-file index before the name-to-id index:
\* at the step that writes the name index for a registration, get(id) already
\* succeeds for the new id, so that there is a state, during the registration,
\* in which get(id) succeeds while the name index has not been written for it.
C25_FileVisibleBeforeName ==
    [][\A t \in Threads :
          (NameUnwritten(t) /\ ~NameUnwritten(t)') => Get(call[t].file_id).some]_vars

\* C26: under every interleaving of registrations with lookups, every id that
\* get_file_id(name) returns resolves through get, get_by_name(name) returns a
\* file for every name get_file_id resolves, and with_label never panics on
\* unwrapping get(id).
C26_NameResolves ==
    /\ \A n \in FileNames :
          GetFileId(n).some => (Get(GetFileId(n).val).some /\ GetByName(n).some)
    /\ ~(bld.pc = "panicked" /\ bld.why = "unwrap")

\* C27: under any interleaving, every add and add_file call for one real path
\* returns the id the path index holds for that path, so all of them return one
\* id; a call that minted an id and lost the race returns the winner's id, and
\* the id it minted is returned to no caller.
C27_OneIdPerPath ==
    /\ \A p \in Paths :
          /\ Cardinality(returned[p]) <= 1
          /\ returned[p] # {} => (p \in DOMAIN seen /\ returned[p] = {seen[p]})
    /\ \A t \in Threads :
          (pc[t] = "done" /\ RealCall(call[t]) /\ call[t].ret.kind = "id") =>
              /\ call[t].ret.id = seen[call[t].name.text]
              /\ (call[t].file_id # SourceIdUNKNOWN /\ call[t].file_id # call[t].ret.id) =>
                     /\ call[t].file_id \notin returned[call[t].name.text]
                     /\ call[t].file_id \in DOMAIN files

\* two calls raced for one path and both minted an id; both have returned the
\* winner's id
C27_Witness ==
    \E t, u \in Threads :
        /\ t # u /\ pc[t] = "done" /\ pc[u] = "done"
        /\ call[t].op = "add" /\ call[u].op = "add_file"
        /\ call[t].name = call[u].name /\ call[t].name.kind = "Real"
        /\ call[t].file_id # SourceIdUNKNOWN /\ call[u].file_id # SourceIdUNKNOWN
        /\ call[t].file_id # call[u].file_id
        /\ call[t].ret = RetId(call[u].file_id) /\ call[u].ret = RetId(call[u].file_id)

\* ------------------------------------------- handler properties, continued
\* C28: on a handler built with verbosity Silent no operation writes to the
\* sink: emit, error, warn, note, info, debug, notice, success, failed and fatal
\* all leave it as it was.
C28_SilentWritesNothing ==
    config.verbosity = "Silent" => sink = << >>

\* the last call to return was fatal, on thread u
FatalReturned(u) == Returned(u) /\ hcall[u].op = "fatal"

\* the answer has_errors or abort_if_errors gives when the counter is not zero
AnswersErrors(c) ==
    /\ c.op = "has_errors" => c.res = "true"
    /\ c.op = "abort_if_errors" => c.res = "raised"

\* C29 as stated: for every configuration, when fatal has returned its
\* FatalError the error counter is one more than fatal found it, and has_errors
\* called next returns true and abort_if_errors called next raises.
C29_FatalRecorded ==
    /\ [](\A u \in HThreads :
            FatalReturned(u) =>
                /\ hcall[u].res = "FatalError"
                /\ err_count = hcall[u].pre_count + 1)
    /\ [][\A t, u \in HThreads :
            (FatalReturned(u) /\ NewHCall(t)) => AnswersErrors(hcall'[t])]_vars

\* C29, amended: fatal always returns its FatalError.  On a handler that is not
\* silent the error counter is then one more than fatal found it, one Error
\* diagnostic has been written, and has_errors called next returns true and
\* abort_if_errors called next raises.  On a silent handler fatal leaves the
\* counter and the sink as it found them, and the calls that follow answer by
\* the counter alone.
C29_FatalRecordedUnlessSilent ==
    /\ [](\A u \in HThreads :
            FatalReturned(u) =>
                /\ hcall[u].res = "FatalError"
                /\ ~handler.silent =>
                       /\ err_count = hcall[u].pre_count + 1
                       /\ Len(sink) = hcall[u].pre_sink + 1
                       /\ sink[Len(sink)] = RenderDiagnostic("Error", hcall[u].message)
                /\ handler.silent => HNoEffect(hcall[u]))
    /\ [][\A t, u \in HThreads :
            (FatalReturned(u) /\ NewHCall(t)) =>
                /\ ~handler.silent => AnswersErrors(hcall'[t])
                /\ (handler.silent /\ err_count = 0) =>
                       /\ hcall'[t].op = "has_errors" => hcall'[t].res = "false"
                       /\ hcall'[t].op = "abort_if_errors" => hcall'[t].res = "returned"]_vars

\* fatal was the first call on a handler that is not silent, and the
\* abort_if_errors that followed it raised
C29_Witness ==
    \E t, u \in HThreads :
        /\ Returned(t) /\ hcall[t].op = "abort_if_errors" /\ hcall[t].res = "raised"
        /\ hcall[u].op = "fatal" /\ hcall[u].res = "FatalError" /\ hcall[u].pre_count = 0
        /\ hpc[u] = "done" /\ ~handler.silent
        /\ err_count = 1 /\ Len(sink) = 1

\* C30: the handler's warning suppression is config.no_warn or a verbosity
\* stricter than Warning.  On a handler built with verbosity Error or Silent and
\* config.no_warn false, emit of a Warning diagnostic returns at once, with
\* warnings_as_errors set as well: the counter and the sink are as the call
\* found them.
C30_NoWarnDerived ==
    /\ [](handler.no_warn = (config.no_warn \/ VerbosityGt(config.verbosity, "Warning")))
    /\ [](\A t \in HThreads :
            (/\ Returned(t) /\ hcall[t].op = "emit" /\ hcall[t].severity = "Warning"
             /\ VerbosityGt(config.verbosity, "Warning") /\ ~config.no_warn) =>
                HNoEffect(hcall[t]))
    /\ [][\A t \in HThreads :
            (/\ NewHCall(t) /\ hcall'[t].op = "emit" /\ hcall'[t].severity = "Warning"
             /\ VerbosityGt(config.verbosity, "Warning") /\ ~config.no_warn) =>
                /\ hpc'[t] = "done"
                /\ UNCHANGED <<err_count, sink>>]_vars

\* a handler with verbosity Error, warnings_as_errors set and config.no_warn
\* false has discarded a Warning after a failed call was counted
C30_Witness ==
    \E t \in HThreads :
        /\ Returned(t) /\ hcall[t].op = "emit" /\ hcall[t].severity = "Warning"
        /\ config.verbosity = "Error" /\ config.warnings_as_errors /\ ~config.no_warn
        /\ hcall[t].pre_count = 1 /\ err_count = 1 /\ Len(sink) = 1

\* ------------------------------------------------- capture sink properties
IsPrefix(p, q) == Len(p) <= Len(q) /\ SubSeq(q, 1, Len(p)) = p

\* bufs without its i-th element
Without(bufs, i) == SubSeq(bufs, 1, i - 1) \o SubSeq(bufs, i + 1, Len(bufs))

\* bytes is the concatenation of all of bufs, each once, in some order
RECURSIVE IsConcat(_, _)
IsConcat(bytes, bufs) ==
    IF bufs = << >>
    THEN bytes = << >>
    ELSE \E i \in DOMAIN bufs :
            /\ IsPrefix(bufs[i], bytes)
            /\ IsConcat(SubSeq(bytes, Len(bufs[i]) + 1, Len(bytes)), Without(bufs, i))

\* bytes is such a concatenation followed by the part of thread t's buffer that
\* t has moved so far
IsConcatThen(bytes, bufs, t) ==
    LET moved == SubSeq(cap.arg[t], 1, Len(cap.arg[t]) - Len(cap.bytes[t]))
    IN /\ Len(moved) <= Len(bytes)
       /\ SubSeq(bytes, Len(bytes) - Len(moved) + 1, Len(bytes)) = moved
       /\ IsConcat(SubSeq(bytes, 1, Len(bytes) - Len(moved)), bufs)

\* C31: under any interleaving of print calls on a capture sink, whenever the
\* mutex is free the captured bytes are the concatenation, in some order, of
\* the whole buffers of the prints that have returned, each exactly once; while
\* a print holds the mutex they are such a concatenation followed by the bytes
\* of that print's buffer moved so far, and by no byte of another buffer; every
\* step leaves the bytes captured before as a prefix; and captured() returns
\* the text of such a concatenation of whole buffers.
C31_CaptureAtomic ==
    /\ [](cap.lock = 0 => IsConcat(cap.buffer, cap.completed))
    /\ [](\A t \in HThreads :
            (cap.lock = t /\ cap.pc[t] \in {"append", "unlock"}) =>
                IsConcatThen(cap.buffer, cap.completed, t))
    /\ [][IsPrefix(cap.buffer, cap.buffer')]_vars
    /\ [][cap.read' # cap.read =>
            /\ cap.read' = FromUtf8Lossy(cap.buffer)
            /\ IsConcat(cap.buffer, cap.completed)]_vars

\* one print holds the mutex with half of its buffer moved, while a print of
\* another buffer waits for the mutex
C31_Witness ==
    \E t, u \in HThreads :
        /\ t # u
        /\ cap.pc[t] = "append" /\ cap.lock = t /\ Len(cap.bytes[t]) = 1
        /\ cap.pc[u] = "lock" /\ cap.arg[u] # cap.arg[t]
        /\ cap.buffer = <<cap.arg[t][1]>>

============================================================================
